---- MODULE Spec2Model ----
(***************************************************************************)
(* A model of the cross match package dl.xmatch: the table kind classifier *)
(* and table reference (table.py), the request validator and encoder       *)
(* (http.py), the q3c search types that compile a cross match to SQL       *)
(* (search_types.py) and the handle of an asynchronous job (job.py).       *)
(*                                                                         *)
(* Python strings are sequences of tokens.  A token is a run of characters *)
(* that no rule of the code splits: "mydb", "vos", "://", "/", ".", "__",  *)
(* "csv", "CSV" and the plain letters "a", "b".  Each text the code looks  *)
(* for ("mydb://", "vos://", ".csv", "://", ".", a leading "/") starts     *)
(* with a character that starts one token only and continues only as the   *)
(* tokens spell it, so the substring tests, the first-character test and   *)
(* str.replace on the text are exactly the same tests on the tokens.       *)
(***************************************************************************)
EXTENDS Integers, Sequences, FiniteSets, TLC

VARIABLES pc, loc, kind, payload, verdict, strategy, tables, dl_table, compiled, tbl, calls, raised,
          job, qc, aliases

vars == <<pc, loc, kind, payload, verdict, strategy, tables, dl_table, compiled, tbl, calls, raised,
          job, qc, aliases>>

\* Python's None.
None == "None"

\* The value of a variable that the running specification does not use.
Idle == "idle"

(***************************************************************************)
(* Bounds of the model.                                                    *)
(***************************************************************************)
\* Longest location string given to the classifier, in tokens.
MaxLen == 3
\* Longest 'tables' list of a request payload.
MaxPayloadTables == 2
\* Longest list of tables given to sql().
MaxTables == 2
\* prepare() is called while fewer than this many callback calls are logged.
MaxCalls == 3

(***************************************************************************)
(* Strings.                                                                *)
(***************************************************************************)
Tokens == {"mydb", "vos", "://", "/", ".", "__", "csv", "CSV", "a", "b"}

\* All strings of at most n tokens.
StringsUpTo(n) == UNION {[1..k -> Tokens] : k \in 0..n}

\* str.lower() of one token.
LowerTok(t) == IF t = "CSV" THEN "csv" ELSE IF t = "ALL" THEN "all" ELSE t

\* str.lower()
Lower(s) == [i \in 1..Len(s) |-> LowerTok(s[i])]

\* pat in s
StrContains(s, pat) ==
    \E i \in 0..(Len(s) - Len(pat)) : \A j \in 1..Len(pat) : s[i + j] = pat[j]

\* s.endswith(pat)
StrEndsWith(s, pat) ==
    /\ Len(s) >= Len(pat)
    /\ \A j \in 1..Len(pat) : s[Len(s) - Len(pat) + j] = pat[j]

\* s.replace(pat, rep) for a pattern of one token: every occurrence, left to right.
StrReplace(s, pat, rep) == [i \in 1..Len(s) |-> IF s[i] = pat THEN rep ELSE s[i]]

(***************************************************************************)
(* table.py: TableTypes                                                    *)
(***************************************************************************)
MYDB == "mydb"
VOS == "vos"
TAPDB == "tap"
CSV_FILE == "csv_f"

TableKinds == {MYDB, VOS, TAPDB, CSV_FILE}

\* What a failed subscript or a failed len() raises.
IndexError == "IndexError"
TypeError == "TypeError"

MydbMarker == <<"mydb", "://">>
VosMarker == <<"vos", "://">>
CsvMarker == <<".", "csv">>

\* TableTypes.detect_type: the kind, or IndexError where table_name[0] is
\* evaluated on the empty string.
detect_type(table_name) ==
    IF StrContains(table_name, MydbMarker) THEN MYDB
    ELSE IF StrContains(table_name, VosMarker) THEN VOS
    ELSE IF Len(table_name) = 0 THEN IndexError
    ELSE IF table_name[1] = "/" \/ StrContains(Lower(table_name), CsvMarker) THEN CSV_FILE
    ELSE TAPDB

(***************************************************************************)
(* Specification SpecClassify: the classifier applied to every location.   *)
(***************************************************************************)
InitClassify ==
    /\ pc = "classify"
    /\ job = Idle /\ qc = Idle /\ aliases = Idle
    /\ loc \in StringsUpTo(MaxLen)
    /\ kind = None
    /\ payload = Idle /\ verdict = Idle
    /\ strategy = Idle /\ tables = Idle /\ dl_table = Idle /\ compiled = Idle
    /\ tbl = Idle /\ calls = Idle /\ raised = Idle

\* A call of TableTypes.detect_type(loc).
Classify ==
    /\ pc = "classify"
    /\ kind' = detect_type(loc)
    /\ pc' = "classified"
    /\ UNCHANGED <<loc, payload, verdict, strategy, tables, dl_table, compiled, tbl, calls, raised, job, qc, aliases>>

NextClassify == Classify

SpecClassify == InitClassify /\ [][NextClassify]_vars

\* C1: detect_type is total: for every location string, the empty one
\* included, it returns one of the four kinds without raising, and a string
\* that matches no rule is classified tap.
C1_DetectTypeTotal ==
    pc = "classified" =>
        /\ kind \in TableKinds
        /\ ( /\ ~StrContains(loc, MydbMarker)
             /\ ~StrContains(loc, VosMarker)
             /\ ~(Len(loc) > 0 /\ loc[1] = "/")
             /\ ~StrContains(Lower(loc), CsvMarker)
             => kind = TAPDB )

\* C2: first match wins: mydb marker, else vos marker, else a leading path
\* separator or a trailing file extension marker gives csv_f, else tap; a
\* location with the extension marker only in its middle is not csv_f.
\* Stated for the non-empty locations (the empty one is C1's).
C2_RuleOrder ==
    (pc = "classified" /\ Len(loc) > 0) =>
        kind = ( IF StrContains(loc, MydbMarker) THEN MYDB
                 ELSE IF StrContains(loc, VosMarker) THEN VOS
                 ELSE IF loc[1] = "/" \/ StrEndsWith(Lower(loc), CsvMarker) THEN CSV_FILE
                 ELSE TAPDB )

(***************************************************************************)
(* http.py: XMatchRequest.  A request payload is parsed JSON: Python       *)
(* values, tagged with their type.  A dict carries the set of its keys;    *)
(* the field of a key it does not have is PyNone.                          *)
(***************************************************************************)
PyNone == [t |-> "none"]
PyBool(b) == [t |-> "bool", b |-> b]
PyStr(s) == [t |-> "str", s |-> s]
PyList(items) == [t |-> "list", items |-> items]

\* Python's truth test: `not v`.
Falsy(v) ==
    \/ v.t = "none"
    \/ v.t = "bool" /\ ~v.b
    \/ v.t = "str" /\ v.s = <<>>
    \/ v.t = "list" /\ v.items = <<>>
    \/ v.t = "dict" /\ v.keys = {}

\* dict.get(key, default)
DictGet(d, key, default) == IF key \in d.keys THEN d[key] ELSE default

\* len(v) is defined for strings and lists; len(None) raises TypeError.
HasLen(v) == v.t \in {"str", "list"}
PyLen(v) == IF v.t = "str" THEN Len(v.s) ELSE Len(v.items)

\* What a call does: it returns a pair (ok, msg), or it raises.
Returned(ok, msg) == [exc |-> "none", ok |-> ok, msg |-> msg]
Raises(e) == [exc |-> e]

\* json.dumps of a table descriptor, key by key in the descriptor's order.
JsonValue(v) == IF v.t = "none" THEN <<"null">> ELSE <<"\"">> \o v.s \o <<"\"">>
JsonDumps(d) ==
    <<"{">>
    \o (IF "table_name" \in d.keys THEN <<"\"table_name\": ">> \o JsonValue(d.table_name) ELSE <<>>)
    \o (IF {"table_name", "ra"} \subseteq d.keys THEN <<", ">> ELSE <<>>)
    \o (IF "ra" \in d.keys THEN <<"\"ra\": ">> \o JsonValue(d.ra) ELSE <<>>)
    \o <<"}">>

MsgNoTable == <<"no table was provided">>
MsgNameRequired == <<"The 'table_name' key is required for an xmatch table", ". Received ">>
MsgNoBody == <<"request body must be valid JSON">>
MsgTablesRequired == <<"The 'tables' key is required and must contain", " at least one mydb table">>
MsgDlTableRequired == <<"The 'dl_table' key is required when only one ", "mydb table is provided.">>
MsgSuccess == <<"Success">>

\* XMatchRequest.is_valid_xm_table
is_valid_xm_table(table_data) ==
    IF Falsy(table_data) THEN Returned(PyNone, MsgNoTable)
    ELSE LET table_name == DictGet(table_data, "table_name", PyStr(<<>>))
         IN  IF ~HasLen(table_name) THEN Raises(TypeError)
             ELSE IF PyLen(table_name) = 0
                  THEN Returned(PyBool(FALSE), MsgNameRequired \o JsonDumps(table_data))
                  ELSE Returned(PyBool(TRUE), <<>>)

\* The loop of validate_payload over all_tables, from entry i on.
RECURSIVE ValidateTables(_, _)
ValidateTables(all_tables, i) ==
    IF i > Len(all_tables) THEN Returned(PyBool(TRUE), MsgSuccess)
    ELSE LET r == is_valid_xm_table(all_tables[i])
         IN  IF r.exc # "none" THEN r
             ELSE IF Falsy(r.ok) THEN Returned(PyBool(FALSE), r.msg)
             ELSE ValidateTables(all_tables, i + 1)

\* XMatchRequest.validate_payload
validate_payload(xm_data) ==
    IF Falsy(xm_data) THEN Returned(PyBool(FALSE), MsgNoBody)
    ELSE LET user_tables == DictGet(xm_data, "tables", PyList(<<>>))
             dl == DictGet(xm_data, "dl_table", PyNone)
         IN  \* user_tables + [dl_table] and len(user_tables) need a list
             IF ~HasLen(user_tables) THEN Raises(TypeError)
             ELSE IF PyLen(user_tables) = 0 THEN Returned(PyBool(FALSE), MsgTablesRequired)
             ELSE IF PyLen(user_tables) = 1 /\ "dl_table" \notin xm_data.keys
                  THEN Returned(PyBool(FALSE), MsgDlTableRequired)
             ELSE ValidateTables(IF Falsy(dl) THEN user_tables.items
                                 ELSE Append(user_tables.items, dl), 1)

\* The table names and descriptors a payload is built from.
PayloadNames == {PyNone, PyStr(<<>>), PyStr(<<"a">>)}
TableDescriptor(keys, name) ==
    [t |-> "dict", keys |-> keys,
     table_name |-> IF "table_name" \in keys THEN name ELSE PyNone,
     ra |-> IF "ra" \in keys THEN PyStr(<<"ra">>) ELSE PyNone]
Descriptors ==
    {PyNone} \cup {TableDescriptor(k, n) : k \in SUBSET {"table_name", "ra"}, n \in PayloadNames}
DescriptorLists == UNION {[1..k -> Descriptors] : k \in 0..MaxPayloadTables}
Payload(keys, ts, dl) ==
    [t |-> "dict", keys |-> keys,
     tables |-> IF "tables" \in keys THEN ts ELSE PyNone,
     dl_table |-> IF "dl_table" \in keys THEN dl ELSE PyNone]
Payloads ==
    {PyNone} \cup
    {Payload(k, ts, dl) : k \in SUBSET {"tables", "dl_table"},
                          ts \in {PyNone} \cup {PyList(l) : l \in DescriptorLists},
                          dl \in Descriptors}

(***************************************************************************)
(* Specification SpecValidate: the validator applied to every payload.     *)
(***************************************************************************)
InitValidate ==
    /\ pc = "validate"
    /\ job = Idle /\ qc = Idle /\ aliases = Idle
    /\ payload \in Payloads
    /\ verdict = None
    /\ loc = Idle /\ kind = Idle
    /\ strategy = Idle /\ tables = Idle /\ dl_table = Idle /\ compiled = Idle
    /\ tbl = Idle /\ calls = Idle /\ raised = Idle

\* A call of XMatchRequest.validate_payload(payload).
Validate ==
    /\ pc = "validate"
    /\ verdict' = validate_payload(payload)
    /\ pc' = "validated"
    /\ UNCHANGED <<loc, kind, payload, strategy, tables, dl_table, compiled, tbl, calls, raised, job, qc, aliases>>

NextValidate == Validate

SpecValidate == InitValidate /\ [][NextValidate]_vars

\* The payload is a dict whose 'tables' is a list of exactly one entry.
OneTable(p) ==
    /\ p.t = "dict" /\ "tables" \in p.keys
    /\ p.tables.t = "list" /\ Len(p.tables.items) = 1

\* No primary table is given: 'dl_table' is absent, null or an empty descriptor.
NoPrimary(p) == "dl_table" \notin p.keys \/ Falsy(p.dl_table)

\* The lone table of the payload carries a non-empty table_name.
LoneTableNamed(p) ==
    /\ p.tables.items[1].t = "dict" /\ "table_name" \in p.tables.items[1].keys
    /\ p.tables.items[1].table_name.t = "str" /\ p.tables.items[1].table_name.s # <<>>

\* C3: a payload with exactly one entry in 'tables' and no primary table is
\* rejected with the message that cites the 'dl_table' requirement.  Stated
\* for a lone table that is itself a valid descriptor.
C3_SingleTableNeedsPrimary ==
    (pc = "validated" /\ OneTable(payload) /\ LoneTableNamed(payload) /\ NoPrimary(payload)) =>
        /\ verdict.exc = "none"
        /\ verdict.ok = PyBool(FALSE)
        /\ verdict.msg = MsgDlTableRequired

\* The payloads the claim lists: absent or empty, 'tables' missing or a list.
ListedPayload(p) == (p.t = "dict" /\ "tables" \in p.keys) => p.tables.t = "list"

\* C4: validate_payload never raises: for every payload (absent, empty,
\* 'tables' empty or missing, descriptors that are empty, lack 'table_name'
\* or carry an empty or null one) it returns (ok, msg) with ok a boolean
\* and, when ok is false, msg a non-empty string.
C4_ValidateNeverRaises ==
    (pc = "validated" /\ ListedPayload(payload)) =>
        /\ verdict.exc = "none"
        /\ verdict.ok.t = "bool"
        /\ (~verdict.ok.b => verdict.msg # <<>>)

(***************************************************************************)
(* table.py: XMatchTable.  Optional strings are PyNone or PyStr.           *)
(***************************************************************************)
\* XMatchTable.__init__
XMatchTable(table_name, output_cols, ra, dec, import_name, error_circle, major_axis, axis_ratio, pos_angle) ==
    [name |-> table_name,
     output_cols |-> IF output_cols # <<>> THEN output_cols ELSE <<<<"all">>>>,
     table_type |-> detect_type(table_name),
     ra |-> ra, dec |-> dec, import_name |-> import_name,
     error_circle |-> error_circle, major_axis |-> major_axis,
     axis_ratio |-> axis_ratio, pos_angle |-> pos_angle]

\* XMatchTable.alias
alias(t) ==
    StrReplace(t.name, IF t.table_type \in {MYDB, VOS} THEN "://" ELSE ".", "__")

\* XMatchTable.use_all_cols
use_all_cols(t) == Lower(t.output_cols[1]) = <<"all">>

\* An f-string's rendering of a value: str(None) is "None".
Fmt(v) == IF v.t = "none" THEN <<"None">> ELSE v.s

(***************************************************************************)
(* search_types.py.  SQL text is a sequence of items: the expressions the  *)
(* f-strings build, as records of their interpolated parts, and the        *)
(* separators str.join puts between them.                                  *)
(***************************************************************************)
Sep(text) == [k |-> "sep", text |-> text]

\* sep.join(texts), each text a sequence of items (the empty string is <<>>).
RECURSIVE JoinText(_, _)
JoinText(sep, texts) ==
    IF texts = <<>> THEN <<>>
    ELSE IF Len(texts) = 1 THEN texts[1]
    ELSE texts[1] \o <<Sep(sep)>> \o JoinText(sep, Tail(texts))

\* The concatenation of a sequence of sequences.
RECURSIVE Flatten(_)
Flatten(ss) == IF ss = <<>> THEN <<>> ELSE ss[1] \o Flatten(Tail(ss))

\* conversions.arcs_to_deg: arcseconds to degrees, as an exact fraction.
arcs_to_deg(radius) == [t |-> "num", num |-> radius, den |-> 3600]

\* NearestNeighbor.__init__, AllMatches.__init__ and AllMatchesEllipse.
NearestNeighbor(radius, exclude_non_matches, use_error_col) ==
    [type_key |-> "nearest_neighbor", radius |-> arcs_to_deg(radius),
     exclude_non_matches |-> exclude_non_matches, use_error_col |-> use_error_col]
AllMatches(radius, use_error_circle) ==
    [type_key |-> "all_matches_spherical", radius |-> arcs_to_deg(radius),
     use_error_circle |-> use_error_circle]
AllMatchesEllipse == [type_key |-> "all_matches_ellipse"]

\* `dl_table if dl_table else tables[-1]`: defined unless both are empty.
HasMatchTable(tbls, dl) == dl # PyNone \/ tbls # <<>>
MatchTable(tbls, dl) == IF dl # PyNone THEN dl ELSE tbls[Len(tbls)]

\* `tables[:-1] if not dl_table and len(tables) > 1 else tables`
Targets(tbls, dl) ==
    IF dl = PyNone /\ Len(tbls) > 1 THEN SubSeq(tbls, 1, Len(tbls) - 1) ELSE tbls

\* `tables if not dl_table else tables + [dl_table]`
AllTables(tbls, dl) == IF dl = PyNone THEN tbls ELSE Append(tbls, dl)

\* One distance column of q3c_dist_cols.
DistCol(table, match_table) ==
    [k |-> "dist", alias |-> alias(table), ra |-> table.ra, dec |-> table.dec,
     m_alias |-> alias(match_table), m_ra |-> match_table.ra, m_dec |-> match_table.dec,
     name |-> alias(table) \o <<"_dist_arcsec">>]

\* _Q3CSearchBase.q3c_dist_cols
q3c_dist_cols(tbls, dl) ==
    LET targets == Targets(tbls, dl)
    IN  JoinText(",\n", [i \in 1..Len(targets) |-> <<DistCol(targets[i], MatchTable(tbls, dl))>>])

\* One output column of col_sql.
OutputCol(table, col) ==
    IF col = <<"all">> THEN [k |-> "star", alias |-> alias(table)]
    ELSE [k |-> "col", alias |-> alias(table), col |-> col,
          name |-> IF table.table_type = TAPDB THEN col ELSE alias(table) \o <<"_">> \o col]

\* _Q3CSearchBase.col_sql: the columns of every table, then the string of
\* q3c_dist_cols as one more element of the join.
col_sql(self, tbls, dl) ==
    LET all_tables == AllTables(tbls, dl)
        output_cols ==
            Flatten([i \in 1..Len(all_tables) |->
                [j \in 1..Len(all_tables[i].output_cols) |->
                    <<OutputCol(all_tables[i], all_tables[i].output_cols[j])>>]])
    IN  JoinText(",\n", Append(output_cols, q3c_dist_cols(tbls, dl)))

FromItem(table) == [k |-> "from", name |-> table.name, alias |-> alias(table)]

\* _Q3CSearchBase.from_sql, and NearestNeighbor.from_sql over the targets only.
from_sql(self, tbls, dl) ==
    LET froms == IF self.type_key = "nearest_neighbor" THEN Targets(tbls, dl)
                 ELSE AllTables(tbls, dl)
    IN  JoinText(",\n", [i \in 1..Len(froms) |-> <<FromItem(froms[i])>>])

\* A lateral join that is a LEFT JOIN whatever exclude_non_matches is.
LateralJoin_left_only(self, table, match_t) ==
    [k |-> "lateral",
     j_type |-> "LEFT JOIN",
     m_alias |-> alias(match_t) \o <<"_sub_">> \o alias(table),
     match_name |-> match_t.name,
     alias |-> alias(table), ra |-> table.ra, dec |-> table.dec,
     m_ra |-> match_t.ra, m_dec |-> match_t.dec,
     search_deg |-> IF ~Falsy(self.use_error_col) THEN table.error_circle ELSE self.radius,
     order_by |-> "q3c_dist ASC LIMIT 1",
     bound_as |-> alias(match_t),
     null_join |-> "ON true"]

\* One lateral join of NearestNeighbor.join_sql.
LateralJoin(self, table, match_t) ==
    [k |-> "lateral",
     j_type |-> IF self.exclude_non_matches THEN "INNER JOIN" ELSE "LEFT JOIN",
     m_alias |-> alias(match_t) \o <<"_sub_">> \o alias(table),
     match_name |-> match_t.name,
     alias |-> alias(table), ra |-> table.ra, dec |-> table.dec,
     m_ra |-> match_t.ra, m_dec |-> match_t.dec,
     search_deg |-> IF ~Falsy(self.use_error_col) THEN table.error_circle ELSE self.radius,
     order_by |-> "q3c_dist ASC LIMIT 1",
     bound_as |-> alias(match_t),
     null_join |-> "ON true"]

\* join_sql with every lateral join taken against the last of the tables,
\* whether or not there is a primary table.
join_sql_last_table(self, tbls, dl) ==
    IF self.type_key # "nearest_neighbor" THEN <<>>
    ELSE LET targets == Targets(tbls, dl)
         IN  JoinText("\nAND\n",
                 [i \in 1..Len(targets) |-> <<LateralJoin(self, targets[i], tbls[Len(tbls)])>>])

\* _Q3CSearchBase.join_sql (no join) and NearestNeighbor.join_sql.
join_sql(self, tbls, dl) ==
    IF self.type_key # "nearest_neighbor" THEN <<>>
    ELSE LET targets == Targets(tbls, dl)
         IN  JoinText("\nAND\n",
                 [i \in 1..Len(targets) |-> <<LateralJoin(self, targets[i], MatchTable(tbls, dl))>>])

\* A q3c_join predicate that takes the fixed radius whatever use_error_circle is.
RadiusJoin_fixed_radius(self, table, match_t) ==
    [k |-> "q3c_join", alias |-> alias(table), ra |-> table.ra, dec |-> table.dec,
     m_alias |-> alias(match_t), m_ra |-> match_t.ra, m_dec |-> match_t.dec,
     search_deg |-> self.radius]

\* One q3c_join predicate of AllMatches.where_sql.
RadiusJoin(self, table, match_t) ==
    [k |-> "q3c_join", alias |-> alias(table), ra |-> table.ra, dec |-> table.dec,
     m_alias |-> alias(match_t), m_ra |-> match_t.ra, m_dec |-> match_t.dec,
     search_deg |-> IF self.use_error_circle
                    THEN PyStr(alias(table) \o <<".">> \o Fmt(table.error_circle))
                    ELSE self.radius]

\* One q3c_ellipse_join predicate of AllMatchesEllipse.where_sql.
EllipseJoin(table, match_t) ==
    [k |-> "q3c_ellipse_join", alias |-> alias(table), ra |-> table.ra, dec |-> table.dec,
     m_alias |-> alias(match_t), m_ra |-> match_t.ra, m_dec |-> match_t.dec,
     major_axis |-> alias(table) \o <<".">> \o Fmt(table.major_axis),
     axis_ratio |-> alias(table) \o <<".">> \o Fmt(table.axis_ratio),
     pos_angle |-> alias(table) \o <<".">> \o Fmt(table.pos_angle)]

\* NearestNeighbor.where_sql, AllMatches.where_sql, AllMatchesEllipse.where_sql
where_sql(self, tbls, dl) ==
    IF self.type_key = "nearest_neighbor" THEN <<[k |-> "text", text |-> "1=1"]>>
    ELSE LET targets == Targets(tbls, dl)
             match_t == MatchTable(tbls, dl)
         IN  JoinText("\nAND\n",
                 [i \in 1..Len(targets) |->
                     <<IF self.type_key = "all_matches_spherical"
                       THEN RadiusJoin(self, targets[i], match_t)
                       ELSE EllipseJoin(targets[i], match_t)>>])

\* _Q3CSearchBase.sql: the four fragments in the statement's template, or the
\* IndexError of tables[-1] raised by the first fragment, col_sql.
sql(self, tbls, dl) ==
    IF ~HasMatchTable(tbls, dl) THEN Raises(IndexError)
    ELSE [exc |-> "none",
          output_cols |-> col_sql(self, tbls, dl),
          from_clause |-> from_sql(self, tbls, dl),
          join_clause |-> join_sql(self, tbls, dl),
          where_clause |-> where_sql(self, tbls, dl)]

(***************************************************************************)
(* Specification SpecCompile: one call of sql() on a strategy, a list of   *)
(* tables and an optional primary table.                                   *)
(***************************************************************************)
\* Table names of each kind; "a.b" and "a__b" are two tap tables.
CompileNames ==
    { <<"mydb", "://", "a">>, <<"a", ".", "b">>, <<"a", "__", "b">>, <<"/", "a", ".", "csv">> }

\* A table with all its shape columns set.
ShapedTable(name, cols) ==
    XMatchTable(name, cols, <<"ra">>, <<"dec">>, <<>>,
                PyStr(<<"err">>), PyStr(<<"maj">>), PyStr(<<"ratio">>), PyStr(<<"pa">>))

\* A table built with the constructor's defaults but for the given shape columns.
PlainTable(name, cols, major_axis, axis_ratio, pos_angle) ==
    XMatchTable(name, cols, <<"ra">>, <<"dec">>, <<>>, PyNone, major_axis, axis_ratio, pos_angle)

CompileTables ==
    {ShapedTable(n, c) : n \in CompileNames, c \in {<<>>, << <<"ra">>, <<"mag">> >>}}
    \cup {ShapedTable(<<"mydb", "://", "b">>, << <<"ALL">> >>)}
    \cup {PlainTable(<<"mydb", "://", "b">>, <<>>, PyNone, PyNone, PyNone),
          PlainTable(<<"mydb", "://", "b">>, <<>>, PyNone, PyStr(<<"ratio">>), PyStr(<<"pa">>))}

CompilePrimaries ==
    {PyNone,
     ShapedTable(<<"a", ".", "b">>, << <<"ra">>, <<"mag">> >>),
     ShapedTable(<<"mydb", "://", "a">>, <<>>)}

Radii == {2, 5}

Strategies ==
    {NearestNeighbor(r, e, u) : r \in Radii, e \in BOOLEAN, u \in {PyNone, PyBool(TRUE)}}
    \cup {AllMatches(r, u) : r \in Radii, u \in BOOLEAN}
    \cup {AllMatchesEllipse}

InitCompile ==
    /\ pc = "compile"
    /\ job = Idle /\ qc = Idle /\ aliases = Idle
    /\ strategy \in Strategies
    /\ tables \in UNION {[1..k -> CompileTables] : k \in 0..MaxTables}
    /\ dl_table \in CompilePrimaries
    /\ compiled = None
    /\ loc = Idle /\ kind = Idle /\ payload = Idle /\ verdict = Idle
    /\ tbl = Idle /\ calls = Idle /\ raised = Idle

\* A call of strategy.sql(tables, dl_table).
Compile ==
    /\ pc = "compile"
    /\ compiled' = sql(strategy, tables, dl_table)
    /\ pc' = "compiled"
    /\ UNCHANGED <<loc, kind, payload, verdict, strategy, tables, dl_table, tbl, calls, raised, job, qc, aliases>>

NextCompile == Compile

SpecCompile == InitCompile /\ [][NextCompile]_vars

\* The items of kind k in a text, in order.
ItemsOf(text, k) == SelectSeq(text, LAMBDA it : it.k = k)

\* C5: sql() on an empty list of tables fails, for every strategy, with or
\* without a primary table: no SQL text is returned.
C5_EmptyTargetsFail ==
    (pc = "compiled" /\ tables = <<>>) => compiled.exc # "none"

\* Two participating tables (the tables and the primary) have the same alias.
AliasCollision ==
    LET all_tables == AllTables(tables, dl_table)
    IN  \E i, j \in 1..Len(all_tables) : i < j /\ alias(all_tables[i]) = alias(all_tables[j])

\* C6: sql() on tables of which two have the same alias() fails instead of
\* returning SQL that binds one alias twice.
C6_AliasCollisionFails ==
    (pc = "compiled" /\ AliasCollision) => compiled.exc # "none"

\* A table without one of the columns of the ellipse.
LacksShape(t) == PyNone \in {t.major_axis, t.axis_ratio, t.pos_angle}

\* C7: sql() of AllMatchesEllipse fails when a target has major_axis,
\* axis_ratio or pos_angle unset; no SQL text is returned.
C7_EllipseNeedsShape ==
    ( /\ pc = "compiled"
      /\ strategy.type_key = "all_matches_ellipse"
      /\ HasMatchTable(tables, dl_table)
      /\ \E i \in 1..Len(Targets(tables, dl_table)) : LacksShape(Targets(tables, dl_table)[i]) )
    => compiled.exc # "none"

\* The names of the distance columns of the statement, in order.
DistNames == [i \in 1..Len(ItemsOf(compiled.output_cols, "dist")) |->
                 ItemsOf(compiled.output_cols, "dist")[i].name]

\* C8: NearestNeighbor and AllMatches append one distance column
\* <alias>_dist_arcsec per target; AllMatchesEllipse appends none.
C8_DerivedColumns ==
    (pc = "compiled" /\ compiled.exc = "none") =>
        DistNames = IF strategy.type_key = "all_matches_ellipse" THEN <<>>
                    ELSE [i \in 1..Len(Targets(tables, dl_table)) |->
                             alias(Targets(tables, dl_table)[i]) \o <<"_dist_arcsec">>]

\* What the rule of C9 makes one table contribute.
SelectedCols(t) ==
    IF use_all_cols(t) THEN <<[k |-> "star", alias |-> alias(t)]>>
    ELSE [j \in 1..Len(t.output_cols) |->
             [k |-> "col", alias |-> alias(t), col |-> t.output_cols[j],
              name |-> IF t.table_type = TAPDB THEN t.output_cols[j]
                       ELSE alias(t) \o <<"_">> \o t.output_cols[j]]]

\* C9: every participating table that requests all columns contributes
\* <alias>.* and nothing else; any other contributes one column per listed
\* name, in order, named <alias>_<column>, or the bare name for a tap table.
C9_ColumnSelection ==
    (pc = "compiled" /\ compiled.exc = "none") =>
        SelectSeq(compiled.output_cols, LAMBDA it : it.k \in {"star", "col"})
            = Flatten([i \in 1..Len(AllTables(tables, dl_table)) |->
                          SelectedCols(AllTables(tables, dl_table)[i])])

(***************************************************************************)
(* table.py: XMatchTable.prepare, and specification SpecPrepare: a table   *)
(* reference on which prepare() is called again and again, with any        *)
(* callbacks.  calls is the log of the callbacks invoked so far; raised is  *)
(* what the last call of prepare() raised.                                 *)
(***************************************************************************)
\* mydb_name without the scratch marker.
mydb_name_bare(t) ==
    IF t.table_type \in {CSV_FILE, VOS} THEN t.import_name ELSE t.name

\* XMatchTable.mydb_name
mydb_name(t) ==
    IF t.table_type \in {CSV_FILE, VOS} THEN MydbMarker \o t.import_name ELSE t.name

\* XMatchTable.set_name: the name is assigned before detect_type can raise.
set_name(t, name) ==
    [t EXCEPT !.name = name,
              !.table_type = IF detect_type(name) = IndexError THEN @ ELSE detect_type(name)]

\* A callback argument: None, a callable that returns, a callable that raises.
Callbacks == {"None", "ok", "raise"}

\* The callback prepare() selects for the table's kind.
prepare_call(t, csv_file, vos_file) ==
    IF t.table_type = VOS THEN vos_file
    ELSE IF t.table_type = CSV_FILE THEN csv_file
    ELSE "None"

\* The log entry of one callback invocation.
Called(fn, outcome) == [fn |-> fn, ok |-> outcome = "ok"]

\* The name under which prepare() invokes its import callback.
ImportFn(t) == IF t.table_type = VOS THEN "vos_file" ELSE "csv_file"

NoError == [exc |-> "none"]

\* The import error without the name of the mydb table.
ImportError_unnamed(t) ==
    [exc |-> "XMatchException",
     msg |-> <<"Error encoutered during the import process of ">> \o t.name
             \o <<". Ensure that the file exists">>]

ImportError(t) ==
    [exc |-> "XMatchException",
     msg |-> <<"Error encoutered during the import process of ">> \o t.name
             \o <<". Ensure that the file exists and the mydb table name ", "'">>
             \o t.import_name \o <<"'", " isn't taken">>]
PostImportError ==
    [exc |-> "XMatchException",
     msg |-> <<"Error encoutered during the post import process. Usually ",
               "this is an indication that the table wasn't indexed properly">>]

PrepareNames ==
    { <<"/", "a", ".", "csv">>, <<"a", ".", "CSV">>, <<"vos", "://", "a">>,
      <<"mydb", "://", "a">>, <<"a", ".", "b">> }
ImportNames == { <<>>, <<"a">>, <<"b">>, <<"vos", "://", "b">>, <<"b", ".", "csv">> }

InitPrepare ==
    /\ pc = "prepare"
    /\ job = Idle /\ qc = Idle /\ aliases = Idle
    /\ tbl \in {XMatchTable(n, <<>>, <<"ra">>, <<"dec">>, i, PyNone, PyNone, PyNone, PyNone) :
                   n \in PrepareNames, i \in ImportNames}
    /\ calls = <<>>
    /\ raised = NoError
    /\ loc = Idle /\ kind = Idle /\ payload = Idle /\ verdict = Idle
    /\ strategy = Idle /\ tables = Idle /\ dl_table = Idle /\ compiled = Idle

\* prepare() with `if on_import:` in place of `if prepare_call and on_import:`.
Prepare_always_on_import(csv_file, vos_file, on_import) ==
    LET call == prepare_call(tbl, csv_file, vos_file)
        imported == IF call = "None" THEN calls ELSE Append(calls, Called(ImportFn(tbl), call))
    IN  /\ pc = "prepare"
        /\ Len(calls) < MaxCalls
        /\ IF call = "raise"
           THEN /\ calls' = imported
                /\ raised' = ImportError(tbl)
                /\ tbl' = tbl
           ELSE /\ tbl' = set_name(tbl, mydb_name(tbl))
                /\ IF on_import # "None"
                   THEN /\ calls' = Append(imported, Called("on_import", on_import))
                        /\ raised' = IF on_import = "raise" THEN PostImportError ELSE NoError
                   ELSE calls' = imported /\ raised' = NoError
        /\ UNCHANGED <<pc, loc, kind, payload, verdict, strategy, tables, dl_table, compiled, job, qc, aliases>>

\* A call of tbl.prepare(csv_file, vos_file, on_import).
Prepare(csv_file, vos_file, on_import) ==
    LET call == prepare_call(tbl, csv_file, vos_file)
        imported == IF call = "None" THEN calls ELSE Append(calls, Called(ImportFn(tbl), call))
    IN  /\ pc = "prepare"
        /\ Len(calls) < MaxCalls
        /\ IF call = "raise"
           THEN /\ calls' = imported
                /\ raised' = ImportError(tbl)
                /\ tbl' = tbl
           ELSE /\ tbl' = set_name(tbl, mydb_name(tbl))
                /\ IF detect_type(mydb_name(tbl)) = IndexError
                   THEN calls' = imported /\ raised' = Raises(IndexError)
                   ELSE IF call # "None" /\ on_import # "None"
                   THEN /\ calls' = Append(imported, Called("on_import", on_import))
                        /\ raised' = IF on_import = "raise" THEN PostImportError ELSE NoError
                   ELSE calls' = imported /\ raised' = NoError
        /\ UNCHANGED <<pc, loc, kind, payload, verdict, strategy, tables, dl_table, compiled, job, qc, aliases>>

NextPrepare == \E csv_file, vos_file, on_import \in Callbacks : Prepare(csv_file, vos_file, on_import)

SpecPrepare == InitPrepare /\ [][NextPrepare]_vars

\* The callbacks a step invokes: what it appends to the log.
NewCalls == SubSeq(calls', Len(calls) + 1, Len(calls'))

\* The step's import callback was invoked and returned without error.
ImportSucceeded ==
    \E i \in 1..Len(NewCalls) : NewCalls[i].fn \in {"csv_file", "vos_file"} /\ NewCalls[i].ok

\* The step invoked an import callback.
ImportInvoked == \E i \in 1..Len(NewCalls) : NewCalls[i].fn \in {"csv_file", "vos_file"}

\* C10: over any sequence of prepare() calls, the name and the kind of a
\* reference change only in a call whose import callback was invoked and
\* returned without error, and a reference that is scratch (mydb) is never
\* imported or renamed again.
C10_ScratchOnlyAfterImport ==
    [][ /\ (tbl'.name # tbl.name \/ tbl'.table_type # tbl.table_type) => ImportSucceeded
        /\ tbl.table_type = MYDB =>
              (tbl'.name = tbl.name /\ tbl'.table_type = MYDB /\ ~ImportInvoked) ]_vars

\* The step's import callback was invoked and raised.
ImportFailed ==
    \E i \in 1..Len(NewCalls) : NewCalls[i].fn \in {"csv_file", "vos_file"} /\ ~NewCalls[i].ok

\* The step invoked the post-import callback.
OnImportInvoked == \E i \in 1..Len(NewCalls) : NewCalls[i].fn = "on_import"

\* C11: when the import callback raises, prepare() raises an XMatchException
\* whose message names the table and, in quotes, its import_name; the name
\* and the kind of the reference are unchanged and on_import is not invoked.
C11_ImportFailureWrapped ==
    [][ ImportFailed =>
          /\ raised'.exc = "XMatchException"
          /\ StrContains(raised'.msg, <<"Error encoutered during the import process of ">> \o tbl.name)
          /\ StrContains(raised'.msg, <<"'">> \o tbl.import_name \o <<"'">>)
          /\ tbl'.name = tbl.name /\ tbl'.table_type = tbl.table_type
          /\ ~OnImportInvoked ]_vars

\* A failed import of a table with an import_name has been logged last.
C11_Witness ==
    /\ pc = "prepare" /\ calls # <<>>
    /\ calls[Len(calls)].fn \in {"csv_file", "vos_file"} /\ ~calls[Len(calls)].ok
    /\ raised.exc = "XMatchException"
    /\ tbl.import_name = <<"b">> /\ tbl.table_type = CSV_FILE

\* C12: after prepare() on a csv or vos reference whose import callback
\* returns, the name is "mydb://" followed by import_name and the kind is
\* mydb, for every import_name.
C12_ImportRewritesToScratch ==
    [][ (tbl.table_type \in {CSV_FILE, VOS} /\ ImportSucceeded) =>
          /\ tbl'.name = <<"mydb", "://">> \o tbl.import_name
          /\ tbl'.table_type = MYDB ]_vars

\* An imported reference: its import is logged and it carries the scratch
\* name of an import_name that itself looks like another kind.
C12_Witness ==
    /\ pc = "prepare"
    /\ \E i \in 1..Len(calls) : calls[i].fn = "vos_file" /\ calls[i].ok
    /\ tbl.import_name = <<"b", ".", "csv">>
    /\ tbl.name = <<"mydb", "://", "b", ".", "csv">> /\ tbl.table_type = MYDB

\* C13: on_import is invoked only in a prepare() call whose import callback
\* was invoked and returned, at most once in the call and after the import;
\* when it raises, the error is not the error of a failed import.
C13_PostImportAfterImport ==
    [][ /\ \A i \in 1..Len(NewCalls) : NewCalls[i].fn = "on_import" =>
              /\ \E j \in 1..(i - 1) : NewCalls[j].fn \in {"csv_file", "vos_file"} /\ NewCalls[j].ok
              /\ \A j \in 1..Len(NewCalls) : NewCalls[j].fn = "on_import" => j = i
              /\ ~NewCalls[i].ok =>
                    /\ raised'.exc = "XMatchException"
                    /\ ~StrContains(raised'.msg, <<"Error encoutered during the import process of ">>)
        /\ ImportFailed => StrContains(raised'.msg, <<"Error encoutered during the import process of ">>)
      ]_vars

\* A post-import callback that raised after a successful import.
C13_Witness ==
    /\ pc = "prepare" /\ Len(calls) >= 2
    /\ calls[Len(calls)].fn = "on_import" /\ ~calls[Len(calls)].ok
    /\ calls[Len(calls) - 1].fn = "csv_file" /\ calls[Len(calls) - 1].ok
    /\ raised = PostImportError

\* sql() returned the text of a statement for a strategy of the given key.
Compiled(type_key) ==
    pc = "compiled" /\ strategy.type_key = type_key /\ compiled.exc = "none"

\* The strategy with exclude_non_matches negated.
Negated(self) == [self EXCEPT !.exclude_non_matches = ~self.exclude_non_matches]

\* C14: with exclude_non_matches true every per-target join of
\* NearestNeighbor is an INNER JOIN, with it false every one is a LEFT JOIN,
\* and for a non-empty list of targets the join list of the two settings
\* differs.
C14_JoinTypeFollowsFlag ==
    Compiled("nearest_neighbor") =>
        LET laterals == ItemsOf(compiled.join_clause, "lateral")
        IN  /\ Len(laterals) = Len(Targets(tables, dl_table))
            /\ \A i \in 1..Len(laterals) :
                  laterals[i].j_type =
                      IF strategy.exclude_non_matches THEN "INNER JOIN" ELSE "LEFT JOIN"
            /\ Targets(tables, dl_table) # <<>> =>
                  join_sql(Negated(strategy), tables, dl_table) # compiled.join_clause

\* NearestNeighbor over two targets with exclude_non_matches set.
C14_Witness ==
    /\ Compiled("nearest_neighbor") /\ strategy.exclude_non_matches
    /\ Len(ItemsOf(compiled.join_clause, "lateral")) = 2

\* C15: the WHERE clause of NearestNeighbor is 1=1, and its join list has
\* exactly one lateral sub-join per target, in order, each selecting from the
\* primary table (without one, the last table) under the spatial predicate
\* on the target's and that table's coordinates, ordered by q3c_dist
\* ascending and limited to one row.
C15_NearestNeighborJoins ==
    Compiled("nearest_neighbor") =>
        LET laterals == ItemsOf(compiled.join_clause, "lateral")
            targets == IF dl_table = PyNone /\ Len(tables) > 1
                       THEN SubSeq(tables, 1, Len(tables) - 1) ELSE tables
            primary == IF dl_table # PyNone THEN dl_table ELSE tables[Len(tables)]
        IN  /\ compiled.where_clause = <<[k |-> "text", text |-> "1=1"]>>
            /\ Len(laterals) = Len(targets)
            /\ \A i \in 1..Len(laterals) :
                  /\ laterals[i].alias = alias(targets[i])
                  /\ laterals[i].ra = targets[i].ra /\ laterals[i].dec = targets[i].dec
                  /\ laterals[i].match_name = primary.name
                  /\ laterals[i].m_ra = primary.ra /\ laterals[i].m_dec = primary.dec
                  /\ laterals[i].order_by = "q3c_dist ASC LIMIT 1"

\* NearestNeighbor over two targets and a primary table other than the last
\* of the tables.
C15_Witness ==
    /\ Compiled("nearest_neighbor") /\ dl_table # PyNone
    /\ Len(tables) = 2 /\ tables[2].name # dl_table.name
    /\ Len(ItemsOf(compiled.join_clause, "lateral")) = 2

\* A text is a conjunction: items of kind k with "\nAND\n" between each two.
IsConjunction(text, k) ==
    \A i \in 1..Len(text) :
        IF i % 2 = 1 THEN text[i].k = k ELSE text[i] = Sep("\nAND\n")

\* C16: the join list of NearestNeighbor is a plain sequence of join
\* clauses, with no connective between two joins, and the WHERE clause of
\* AllMatches and AllMatchesEllipse is a conjunction of predicates.
C16_ValidSql ==
    /\ Compiled("nearest_neighbor") =>
          \A i \in 1..Len(compiled.join_clause) : compiled.join_clause[i].k = "lateral"
    /\ Compiled("all_matches_spherical") => IsConjunction(compiled.where_clause, "q3c_join")
    /\ Compiled("all_matches_ellipse") => IsConjunction(compiled.where_clause, "q3c_ellipse_join")

\* C17: the radius argument of every per-target join of NearestNeighbor is
\* the strategy's radius in degrees when use_error_col is unset, and, when it
\* is set and the matched table has an error radius column, a reference to
\* that column (bare, or qualified by the matched table's alias in the join).
C17_NearestNeighborRadius ==
    Compiled("nearest_neighbor") =>
        LET laterals == ItemsOf(compiled.join_clause, "lateral")
            match_t == MatchTable(tables, dl_table)
        IN  \A i \in 1..Len(laterals) :
                IF Falsy(strategy.use_error_col)
                THEN laterals[i].search_deg = strategy.radius
                ELSE match_t.error_circle # PyNone =>
                         laterals[i].search_deg \in
                             {match_t.error_circle,
                              PyStr(laterals[i].m_alias \o <<".">> \o match_t.error_circle.s)}

\* C18: the WHERE clause of AllMatches is a conjunction of exactly one
\* q3c_join per target, in order, on the target's coordinates and the
\* primary (without one, the last) table's coordinates; its radius argument
\* is the radius in degrees, or with use_error_circle the target's error
\* radius column qualified by the target's alias.
C18_AllMatchesWhere ==
    Compiled("all_matches_spherical") =>
        LET preds == ItemsOf(compiled.where_clause, "q3c_join")
            targets == IF dl_table = PyNone /\ Len(tables) > 1
                       THEN SubSeq(tables, 1, Len(tables) - 1) ELSE tables
            primary == IF dl_table # PyNone THEN dl_table ELSE tables[Len(tables)]
        IN  /\ IsConjunction(compiled.where_clause, "q3c_join")
            /\ Len(preds) = Len(targets)
            /\ \A i \in 1..Len(preds) :
                  /\ preds[i].alias = alias(targets[i])
                  /\ preds[i].ra = targets[i].ra /\ preds[i].dec = targets[i].dec
                  /\ preds[i].m_alias = alias(primary)
                  /\ preds[i].m_ra = primary.ra /\ preds[i].m_dec = primary.dec
                  /\ ~strategy.use_error_circle => preds[i].search_deg = strategy.radius
                  /\ (strategy.use_error_circle /\ targets[i].error_circle # PyNone) =>
                        preds[i].search_deg =
                            PyStr(alias(targets[i]) \o <<".">> \o targets[i].error_circle.s)

\* AllMatches with use_error_circle over two targets that have an error
\* radius column, and a primary table.
C18_Witness ==
    /\ Compiled("all_matches_spherical") /\ strategy.use_error_circle
    /\ dl_table # PyNone /\ Len(tables) = 2
    /\ \A i \in 1..2 : tables[i].error_circle # PyNone
    /\ Len(ItemsOf(compiled.where_clause, "q3c_join")) = 2

(***************************************************************************)
(* http.py, XMatchRequest.format: the request payload of a strategy, a     *)
(* list of tables and an optional primary table.                           *)
(***************************************************************************)
AttributeError == "AttributeError"

\* XMatchTable.request_format
request_format(t) ==
    [t |-> "dict",
     keys |-> {"table_name", "output_cols", "ra", "dec", "import_name",
               "error_circle", "major_axis", "axis_ratio", "pos_angle"},
     table_name |-> PyStr(t.name), output_cols |-> PyList(t.output_cols),
     ra |-> PyStr(t.ra), dec |-> PyStr(t.dec), import_name |-> PyStr(t.import_name),
     error_circle |-> t.error_circle, major_axis |-> t.major_axis,
     axis_ratio |-> t.axis_ratio, pos_angle |-> t.pos_angle]

\* NearestNeighbor.options, AllMatches.options, and XMatchSearchType.options
\* that AllMatchesEllipse inherits.
options(self) ==
    CASE self.type_key = "nearest_neighbor" ->
            [t |-> "dict", keys |-> {"radius", "exclude_non_matches", "use_error_col"},
             radius |-> self.radius,
             exclude_non_matches |-> PyBool(self.exclude_non_matches),
             use_error_col |-> self.use_error_col]
      [] self.type_key = "all_matches_spherical" ->
            [t |-> "dict", keys |-> {"radius", "use_error_circle"},
             radius |-> self.radius,
             use_error_circle |-> PyBool(self.use_error_circle)]
      [] OTHER -> [t |-> "dict", keys |-> {}]

\* search_type.<method>() for a method that takes no argument: the classes of
\* search_types.py define options() and no other; Python raises
\* AttributeError for a name that no class of the instance defines.
CallMethod(self, method) ==
    IF method = "options" THEN [exc |-> "none", value |-> options(self)]
    ELSE Raises(AttributeError)

\* XMatchRequest.format
format(tbls, dl, search_type, radius, async_, output_options) ==
    LET data == [t |-> "dict",
                 keys |-> {"tables", "dl_table", "radius", "search_type",
                           "search_options", "async_", "output_options"},
                 tables |-> PyList(IF tbls # <<>>
                                   THEN [i \in 1..Len(tbls) |-> request_format(tbls[i])]
                                   ELSE <<>>),
                 dl_table |-> IF dl # PyNone THEN request_format(dl) ELSE PyNone,
                 radius |-> radius,
                 search_type |-> search_type.type_key,
                 search_options |-> [t |-> "dict", keys |-> {}],
                 async_ |-> PyBool(async_),
                 output_options |-> output_options]
        search_options == CallMethod(search_type, "request_format")
    IN  IF search_options.exc # "none" THEN search_options
        ELSE [exc |-> "none", data |-> [data EXCEPT !.search_options = search_options.value]]

(***************************************************************************)
(* Specification SpecFormat: one call of XMatchRequest.format, or of the   *)
(* strategy's options(), on a strategy, tables and an optional primary.    *)
(***************************************************************************)
FormatTables ==
    {ShapedTable(<<"a", ".", "b">>, << <<"ra">>, <<"mag">> >>),
     PlainTable(<<"mydb", "://", "b">>, <<>>, PyNone, PyNone, PyNone),
     XMatchTable(<<"/", "a", ".", "csv">>, <<>>, <<"ra">>, <<"dec">>, <<"a">>, PyNone, PyNone, PyNone, PyNone)}

InitFormat ==
    /\ pc = "format"
    /\ job = Idle /\ qc = Idle /\ aliases = Idle
    /\ strategy \in Strategies
    /\ tables \in UNION {[1..k -> FormatTables] : k \in 0..MaxTables}
    /\ dl_table \in {PyNone, ShapedTable(<<"mydb", "://", "a">>, <<>>)}
    /\ payload = None
    /\ loc = Idle /\ kind = Idle /\ verdict = Idle /\ compiled = Idle
    /\ tbl = Idle /\ calls = Idle /\ raised = Idle

\* A call of XMatchRequest.format(tables, dl_table, strategy, async_=...),
\* radius and output_options left to their defaults.
Format ==
    /\ pc = "format"
    /\ \E async_ \in BOOLEAN :
          payload' = format(tables, dl_table, strategy, 5, async_, PyNone)
    /\ pc' = "formatted"
    /\ UNCHANGED <<loc, kind, verdict, strategy, tables, dl_table, compiled, tbl, calls, raised, job, qc, aliases>>

\* A call of strategy.options().
Options ==
    /\ pc = "format"
    /\ payload' = CallMethod(strategy, "options")
    /\ pc' = "options"
    /\ UNCHANGED <<loc, kind, verdict, strategy, tables, dl_table, compiled, tbl, calls, raised, job, qc, aliases>>

NextFormat == Format \/ Options

SpecFormat == InitFormat /\ [][NextFormat]_vars

\* C19: format() returns, for every strategy, a payload whose search_type is
\* the strategy's type_key and whose search_options is what the strategy's
\* options() returns.
C19_FormatEncodesStrategy ==
    pc = "formatted" =>
        /\ payload.exc = "none"
        /\ payload.data.search_type = strategy.type_key
        /\ payload.data.search_options = options(strategy)

\* C20: the search_options that format() returns for a NearestNeighbor or an
\* AllMatches strategy hold the strategy's radius in degrees and its flags,
\* so that a strategy with these values is equivalent to the encoded one.
C20_RoundTrip ==
    (pc = "formatted" /\ strategy.type_key \in {"nearest_neighbor", "all_matches_spherical"}) =>
        /\ payload.exc = "none"
        /\ LET decoded == payload.data.search_options
           IN  /\ decoded.radius = strategy.radius
               /\ strategy.type_key = "nearest_neighbor" =>
                     /\ decoded.exclude_non_matches = PyBool(strategy.exclude_non_matches)
                     /\ decoded.use_error_col = strategy.use_error_col
               /\ strategy.type_key = "all_matches_spherical" =>
                     decoded.use_error_circle = PyBool(strategy.use_error_circle)

(***************************************************************************)
(* job.py.  A Job holds an id and a query client qc; the query client is   *)
(* the remote service, which runs one job and knows no other id.  What it  *)
(* answers for an id it does not know is not in this repository: it raises *)
(* its own error or it returns an error text, and the model takes both.    *)
(***************************************************************************)
\* class Status
COMPLETED == "COMPLETED"
EXECUTING == "EXECUTING"
ERROR == "ERROR"
ABORTED == "ABORTED"

\* The status texts the service reports for a job it knows; QUEUED is one
\* of them although class Status does not name it.
QUEUED == "QUEUED"
RemoteStatuses == {QUEUED, EXECUTING, COMPLETED, ERROR, ABORTED}

\* The exception classes of exceptions.py.
XMatchExceptions == {"XMatchException", "ConfigMissing"}

\* What the query client answers for an id it does not know.
UnknownJobText == "Error: unknown job"
UnknownJob == {Raises("queryClientError"), [exc |-> "none", value |-> UnknownJobText]}

\* self.qc.status(token=None, jobId=...), qc.results and qc.abort: the
\* outcomes of one call of the query client q for the id jobId.
qc_status(q, jobId) ==
    IF jobId = q.jobId THEN {[exc |-> "none", value |-> q.status]} ELSE UnknownJob
qc_results(q, jobId) ==
    IF jobId = q.jobId THEN {[exc |-> "none", value |-> "rows"]} ELSE UnknownJob
qc_abort(q, jobId) ==
    IF jobId = q.jobId THEN {[exc |-> "none", value |-> "OK"]} ELSE UnknownJob

\* Job.done with QUEUED counted as running too.
done_unless_queued(text) == text \notin {EXECUTING, QUEUED}

\* Job.done, Job.error and Job.success on the text status_text() returned.
done(text) == text # EXECUTING
error(text) == text = ERROR

\* Job.success that is true of a job in error as well.
success_or_error(text) == text \in {COMPLETED, ERROR}

success(text) == text = COMPLETED

(***************************************************************************)
(* Specification SpecJob: calls of a Job's methods while the remote job    *)
(* advances.  calls is the log of the calls made, each with the call of    *)
(* the query client it made and what it returned or raised.                *)
(***************************************************************************)
JobIds == {<<"a">>, <<"b">>}

InitJob ==
    /\ pc = "job"
    /\ job \in {[id |-> i] : i \in JobIds}
    /\ qc \in {[jobId |-> <<"a">>, status |-> s] : s \in {QUEUED, EXECUTING}}
    /\ calls = <<>>
    /\ raised = NoError
    /\ aliases = Idle
    /\ loc = Idle /\ kind = Idle /\ payload = Idle /\ verdict = Idle
    /\ strategy = Idle /\ tables = Idle /\ dl_table = Idle /\ compiled = Idle /\ tbl = Idle

\* The remote job moves forward: a queued job starts or is aborted, a
\* running job completes, fails or is aborted; the other statuses are final.
Advance ==
    /\ pc = "job"
    /\ \E s \in RemoteStatuses :
          /\ \/ qc.status = QUEUED /\ s \in {EXECUTING, ABORTED}
             \/ qc.status = EXECUTING /\ s \in {COMPLETED, ERROR, ABORTED}
          /\ qc' = [qc EXCEPT !.status = s]
    /\ UNCHANGED <<pc, loc, kind, payload, verdict, strategy, tables, dl_table, compiled, tbl, calls, raised, job, aliases>>

\* What a method returns when its call of the query client returned value:
\* the predicates test the status text, results() and abort() pass it on.
method_return(method, value) ==
    CASE method = "done" -> done(value)
      [] method = "error" -> error(value)
      [] method = "success" -> success(value)
      [] OTHER -> value

\* One call of a method, which makes the one call fn of the query client;
\* an exception of the query client leaves the method as it is.
JobCall(method, fn, outcomes) ==
    /\ pc = "job" /\ Len(calls) < MaxCalls
    /\ \E out \in outcomes :
          /\ calls' = Append(calls, [method |-> method, fn |-> fn, jobId |-> job.id,
                                     result |-> IF out.exc = "none"
                                                THEN [exc |-> "none", value |-> method_return(method, out.value)]
                                                ELSE out])
          /\ raised' = IF out.exc = "none" THEN NoError ELSE out
    /\ UNCHANGED <<pc, loc, kind, payload, verdict, strategy, tables, dl_table, compiled, tbl, job, qc, aliases>>

\* job.done(), job.error(), job.success()
Done == JobCall("done", "status", qc_status(qc, job.id))
Error == JobCall("error", "status", qc_status(qc, job.id))
Success == JobCall("success", "status", qc_status(qc, job.id))

\* job.results() and job.abort() return what the query client returns.
Results == JobCall("results", "results", qc_results(qc, job.id))
Abort == JobCall("abort", "abort", qc_abort(qc, job.id))

NextJob == Advance \/ Done \/ Error \/ Success \/ Results \/ Abort

SpecJob == InitJob /\ [][NextJob]_vars

\* The call made by the step, when the step is a call of a Job method.
JobMethodCalled(method) ==
    /\ Len(calls') = Len(calls) + 1
    /\ calls'[Len(calls')].method = method

\* The result of the call made by the step.
Result == calls'[Len(calls')].result

C22_ResultsAbortDelegate ==
    [][ \A m \in {"results", "abort"} : JobMethodCalled(m) =>
          /\ calls'[Len(calls')].fn = m
          /\ calls'[Len(calls')].jobId = job.id
          /\ job.id # qc.jobId => raised'.exc \in XMatchExceptions ]_vars

\* A call of the method has returned True.
ReturnedTrue(log, method) ==
    \E i \in 1..Len(log) :
        log[i].method = method /\ log[i].result = [exc |-> "none", value |-> TRUE]

\* C30: the job caches no status and its id never changes: with a remote
\* job that only moves forward, once success() or error() has returned true
\* every later done() returns true, and success() and error() are never both
\* seen true; every predicate answers for the status at the time of its call.
C30_NoCachedStatus ==
    [][ /\ job' = job
        /\ (ReturnedTrue(calls, "success") \/ ReturnedTrue(calls, "error")) =>
              (JobMethodCalled("done") => Result = [exc |-> "none", value |-> TRUE])
        /\ ~(ReturnedTrue(calls', "success") /\ ReturnedTrue(calls', "error"))
        /\ (job.id = qc.jobId /\ JobMethodCalled("success")) =>
              Result.value = (qc.status = COMPLETED) ]_vars

\* done() returned false and, the remote job having completed in between,
\* the next call, success(), returned true.
C30_Witness ==
    /\ pc = "job" /\ Len(calls) = 2
    /\ calls[1].method = "done" /\ calls[1].result = [exc |-> "none", value |-> FALSE]
    /\ calls[2].method = "success" /\ calls[2].result = [exc |-> "none", value |-> TRUE]

(***************************************************************************)
(* Specification SpecLifecycle: a table reference under any sequence of    *)
(* set_name() and prepare() calls after its construction.                  *)
(***************************************************************************)
\* The names set_name() is called with; the empty string is one of them.
SetNames == { <<>>, <<"a", ".", "b">>, <<"vos", "://", "a">>, <<"/", "a", ".", "csv">> }

InitLifecycle == InitPrepare

\* A call of tbl.set_name(name).
SetName(name) ==
    /\ pc = "prepare"
    /\ tbl' = set_name(tbl, name)
    /\ raised' = IF detect_type(name) = IndexError THEN Raises(IndexError) ELSE NoError
    /\ UNCHANGED <<pc, loc, kind, payload, verdict, strategy, tables, dl_table, compiled, calls, job, qc, aliases>>

NextLifecycle ==
    \/ \E name \in SetNames : SetName(name)
    \/ \E csv_file, vos_file, on_import \in Callbacks : Prepare(csv_file, vos_file, on_import)

SpecLifecycle == InitLifecycle /\ [][NextLifecycle]_vars

\* C28: after construction and any sequence of set_name() and prepare()
\* calls, the ones that raise included, the reference's table_type is
\* detect_type of its name.
C28_KindNeverStale ==
    pc = "prepare" => tbl.table_type = detect_type(tbl.name)

(***************************************************************************)
(* Specification SpecAlias: alias() called on two constructed references.  *)
(***************************************************************************)
\* Locations of every kind, with and without a dot in the path.
AliasNames ==
    { <<"mydb", "://", "a">>, <<"mydb", "://", "b">>, <<"mydb", "://", "a", ".", "b">>,
      <<"vos", "://", "a">>, <<"vos", "://", "a", ".", "b">>,
      <<"a">>, <<"a", ".", "b">>, <<"a", "__", "b">>, <<"b", ".", "a">>,
      <<"/", "a", ".", "csv">>, <<"a", ".", "csv">>, <<"b", ".", "csv">> }

InitAlias ==
    /\ pc = "alias"
    /\ tables \in [1..2 -> {XMatchTable(n, <<>>, <<"ra">>, <<"dec">>, <<>>, PyNone, PyNone, PyNone, PyNone) :
                               n \in AliasNames}]
    /\ aliases = None
    /\ job = Idle /\ qc = Idle
    /\ loc = Idle /\ kind = Idle /\ payload = Idle /\ verdict = Idle
    /\ strategy = Idle /\ dl_table = Idle /\ compiled = Idle
    /\ tbl = Idle /\ calls = Idle /\ raised = Idle

\* A call of alias() on each of the two references.
Alias ==
    /\ pc = "alias"
    /\ aliases' = [i \in 1..2 |-> alias(tables[i])]
    /\ pc' = "aliased"
    /\ UNCHANGED <<loc, kind, payload, verdict, strategy, tables, dl_table, compiled, tbl, calls, raised, job, qc>>

NextAlias == Alias

SpecAlias == InitAlias /\ [][NextAlias]_vars

\* The tokens that hold one of the characters '.', '/' and ':'.
SeparatorTokens == {".", "/", "://"}

\* C23: the alias of every reference of every kind holds none of the
\* characters '.', '/' and ':', also for a local file's path and for a
\* scratch name with a dot.
C23_AliasSqlSafe ==
    pc = "aliased" =>
        \A i \in 1..2 : \A k \in 1..Len(aliases[i]) : aliases[i][k] \notin SeparatorTokens

\* C24: two different locations of the same kind have different aliases.
C24_AliasDistinct ==
    (pc = "aliased" /\ tables[1].table_type = tables[2].table_type
                    /\ tables[1].name # tables[2].name) =>
        aliases[1] # aliases[2]

(***************************************************************************)
(* Specification SpecRecompile: repeated calls of sql() and of the four    *)
(* fragment methods on the same strategy, tables and primary table; calls  *)
(* is the log of the calls with what each returned or raised.              *)
(***************************************************************************)
SqlMethods == {"sql", "col_sql", "from_sql", "join_sql", "where_sql"}

\* The methods that evaluate `dl_table if dl_table else tables[-1]`, which
\* raises IndexError when there is neither: col_sql through q3c_dist_cols,
\* the join_sql of NearestNeighbor, the where_sql of the other two, and sql.
EvaluatesMatchTable(self, method) ==
    \/ method \in {"sql", "col_sql"}
    \/ method = "join_sql" /\ self.type_key = "nearest_neighbor"
    \/ method = "where_sql" /\ self.type_key # "nearest_neighbor"

\* self.<method>(tables, dl_table)
call_sql_method(self, method, tbls, dl) ==
    IF method = "sql" THEN sql(self, tbls, dl)
    ELSE IF EvaluatesMatchTable(self, method) /\ ~HasMatchTable(tbls, dl) THEN Raises(IndexError)
    ELSE [exc |-> "none",
          text |-> CASE method = "col_sql" -> col_sql(self, tbls, dl)
                     [] method = "from_sql" -> from_sql(self, tbls, dl)
                     [] method = "join_sql" -> join_sql(self, tbls, dl)
                     [] method = "where_sql" -> where_sql(self, tbls, dl)]

RecompileTables ==
    {ShapedTable(<<"a", ".", "b">>, << <<"ra">>, <<"mag">> >>),
     PlainTable(<<"mydb", "://", "b">>, <<>>, PyNone, PyNone, PyNone)}

RecompileStrategies ==
    {NearestNeighbor(5, TRUE, PyNone), NearestNeighbor(2, FALSE, PyBool(TRUE)),
     AllMatches(5, FALSE), AllMatches(2, TRUE), AllMatchesEllipse}

InitRecompile ==
    /\ pc = "recompile"
    /\ strategy \in RecompileStrategies
    /\ tables \in UNION {[1..k -> RecompileTables] : k \in 0..MaxTables}
    /\ dl_table \in {PyNone, ShapedTable(<<"mydb", "://", "a">>, <<>>)}
    /\ calls = <<>>
    /\ job = Idle /\ qc = Idle /\ aliases = Idle
    /\ loc = Idle /\ kind = Idle /\ payload = Idle /\ verdict = Idle
    /\ compiled = Idle /\ tbl = Idle /\ raised = Idle

\* A call that takes the match table off the list (tables.pop()) instead of
\* reading tables[-1].
CallSqlMethod_popping(method) ==
    /\ pc = "recompile" /\ Len(calls) < MaxCalls
    /\ calls' = Append(calls, [method |-> method,
                               result |-> call_sql_method(strategy, method, tables, dl_table)])
    /\ tables' = Targets(tables, dl_table)
    /\ UNCHANGED <<pc, loc, kind, payload, verdict, strategy, dl_table, compiled, tbl, raised, job, qc, aliases>>

\* A call that appends the primary table to the list it was given
\* (tables.append(dl_table)) instead of building tables + [dl_table].
CallSqlMethod_appending(method) ==
    /\ pc = "recompile" /\ Len(calls) < MaxCalls
    /\ calls' = Append(calls, [method |-> method,
                               result |-> call_sql_method(strategy, method, tables, dl_table)])
    /\ tables' = IF Len(tables) < MaxTables THEN AllTables(tables, dl_table) ELSE tables
    /\ UNCHANGED <<pc, loc, kind, payload, verdict, strategy, dl_table, compiled, tbl, raised, job, qc, aliases>>

\* A call of strategy.<method>(tables, dl_table): the methods build new
\* lists and strings and assign to no attribute of their arguments.
CallSqlMethod(method) ==
    /\ pc = "recompile" /\ Len(calls) < MaxCalls
    /\ calls' = Append(calls, [method |-> method,
                               result |-> call_sql_method(strategy, method, tables, dl_table)])
    /\ UNCHANGED <<pc, loc, kind, payload, verdict, strategy, tables, dl_table, compiled, tbl, raised, job, qc, aliases>>

NextRecompile == \E method \in SqlMethods : CallSqlMethod(method)

SpecRecompile == InitRecompile /\ [][NextRecompile]_vars

BoundAliases(stmt) ==
    [i \in 1..Len(ItemsOf(stmt.from_clause, "from")) |-> ItemsOf(stmt.from_clause, "from")[i].alias]
    \o [i \in 1..Len(ItemsOf(stmt.join_clause, "lateral")) |->
            ItemsOf(stmt.join_clause, "lateral")[i].bound_as]

\* The aliases a statement refers to in its column list and in the
\* predicates of its joins and of its WHERE clause.
ReferencedAliases(stmt) ==
    LET preds == ItemsOf(stmt.join_clause, "lateral") \o ItemsOf(stmt.where_clause, "q3c_join")
                 \o ItemsOf(stmt.where_clause, "q3c_ellipse_join")
        dists == ItemsOf(stmt.output_cols, "dist")
        cols == ItemsOf(stmt.output_cols, "star") \o ItemsOf(stmt.output_cols, "col")
    IN  {cols[i].alias : i \in 1..Len(cols)}
        \cup {dists[i].alias : i \in 1..Len(dists)} \cup {dists[i].m_alias : i \in 1..Len(dists)}
        \cup {preds[i].alias : i \in 1..Len(preds)}
        \cup {preds[i].m_alias : i \in {j \in 1..Len(preds) : preds[j].k # "lateral"}}

\* C29: in a statement compiled from one or more tables of distinct aliases, the match
\* table of every distance column is the primary, else the last table; the
\* targets of the distance columns are the targets of the predicates; every
\* alias referred to is bound in the FROM list or the join list; and no
\* alias is bound twice.
C29_FragmentsAgree ==
    (pc = "compiled" /\ compiled.exc = "none" /\ tables # <<>> /\ ~AliasCollision) =>
        LET preds == ItemsOf(compiled.join_clause, "lateral")
                     \o ItemsOf(compiled.where_clause, "q3c_join")
                     \o ItemsOf(compiled.where_clause, "q3c_ellipse_join")
            dists == ItemsOf(compiled.output_cols, "dist")
            bound == BoundAliases(compiled)
        IN  /\ \A i \in 1..Len(dists) :
                  dists[i].m_alias = alias(IF dl_table # PyNone THEN dl_table ELSE tables[Len(tables)])
            /\ [i \in 1..Len(dists) |-> dists[i].alias] = [i \in 1..Len(preds) |-> preds[i].alias]
            /\ ReferencedAliases(compiled) \subseteq {bound[i] : i \in 1..Len(bound)}
            /\ \A i, j \in 1..Len(bound) : bound[i] = bound[j] => i = j

(***************************************************************************)
(* Specification SpecEvaluate: the statement of NearestNeighbor run on     *)
(* tables of a few rows.  The database does what the keywords of the       *)
(* template say: FROM a, b is the cross product; a LEFT JOIN LATERAL of a  *)
(* sub-select with LIMIT 1, ON true, keeps every row once; an INNER JOIN   *)
(* LATERAL keeps the rows that have a match; a statement with AND between  *)
(* two joins, with an empty FROM list, or that binds an alias twice, is    *)
(* rejected.                                                               *)
(***************************************************************************)
MaxRows == 2

RECURSIVE CrossProductRows(_)
CrossProductRows(ns) == IF ns = <<>> THEN 1 ELSE ns[1] * CrossProductRows(Tail(ns))

\* The rows the statement returns: n[i] is the number of rows of the i-th
\* table of the FROM list, matched the number of rows of the FROM list that
\* have a row of the match table within the radius.
evaluate(stmt, n, matched) ==
    IF stmt.exc # "none" THEN stmt
    ELSE IF \/ ItemsOf(stmt.join_clause, "sep") # <<>>
            \/ stmt.from_clause = <<>>
            \/ \E i, j \in 1..Len(BoundAliases(stmt)) :
                  i < j /\ BoundAliases(stmt)[i] = BoundAliases(stmt)[j]
         THEN Raises("SyntaxError")
    ELSE LET from_rows == CrossProductRows(n)
             joins == ItemsOf(stmt.join_clause, "lateral")
         IN  [exc |-> "none",
              rows |-> IF \E i \in 1..Len(joins) : joins[i].j_type = "INNER JOIN"
                       THEN IF matched < from_rows THEN matched ELSE from_rows
                       ELSE from_rows]

InitEvaluate ==
    /\ pc = "evaluate"
    /\ strategy \in {NearestNeighbor(r, e, u) : r \in Radii, e \in BOOLEAN, u \in {PyNone, PyBool(TRUE)}}
    /\ tables \in UNION {[1..k -> RecompileTables] : k \in 0..MaxTables}
    /\ dl_table \in {PyNone, ShapedTable(<<"mydb", "://", "a">>, <<>>)}
    /\ compiled = None /\ verdict = None
    /\ job = Idle /\ qc = Idle /\ aliases = Idle
    /\ loc = Idle /\ kind = Idle /\ payload = Idle
    /\ tbl = Idle /\ calls = Idle /\ raised = Idle

\* strategy.sql(tables, dl_table), and the statement run on tables of n rows.
Evaluate ==
    /\ pc = "evaluate"
    /\ compiled' = sql(strategy, tables, dl_table)
    /\ \E n \in [1..Len(Targets(tables, dl_table)) -> 0..MaxRows], matched \in 0..MaxRows :
          verdict' = [n |-> n, result |-> evaluate(compiled', n, matched)]
    /\ pc' = "evaluated"
    /\ UNCHANGED <<loc, kind, payload, strategy, tables, dl_table, tbl, calls, raised, job, qc, aliases>>

NextEvaluate == Evaluate

SpecEvaluate == InitEvaluate /\ [][NextEvaluate]_vars

\* C27: the statement of NearestNeighbor with exclude_non_matches false,
\* run on any target tables and primary table of distinct aliases, returns
\* every row of every target exactly once: it
\* returns as many rows as the target has, whatever the radius and however
\* many rows of the match table lie within it.
C27_OuterJoinCardinality ==
    (pc = "evaluated" /\ compiled.exc = "none" /\ tables # <<>> /\ dl_table # PyNone
                      /\ ~AliasCollision /\ ~strategy.exclude_non_matches) =>
        /\ verdict.result.exc = "none"
        /\ \A i \in 1..Len(verdict.n) : verdict.result.rows = verdict.n[i]

====
